---- MODULE Spec2Model ----
(***************************************************************************)
(* A model of the ray tracer of src/src/main.rs: the Vec3 algebra, the    *)
(* sphere and list intersection tests, the three materials, ray_color and *)
(* the sampling loop of main.                                             *)
(*                                                                         *)
(* Numbers.  The program computes in f64: every operation returns the      *)
(* exact result rounded to the precision of the type.  The model computes  *)
(* in rationals <<n, d>> (d > 0, lowest terms) of bounded precision: an    *)
(* operation returns the exact result when its denominator is at most      *)
(* Grid, and the exact result rounded towards zero to a multiple of 1/Grid *)
(* otherwise.  <<1, 0>> is f64::INFINITY.  Comparisons are exact.  Inputs  *)
(* are drawn so that no division by zero happens.                          *)
(***************************************************************************)
EXTENDS Integers, Sequences, FiniteSets, TLC

(***************************************************************************)
(* Bounds of the model.                                                    *)
(***************************************************************************)
\* the longest scene (number of objects added to the HittableList)
MaxObjects == 2
\* the largest depth handed to ray_color (main uses max_depth = 50)
MaxDepth == 2
\* the precision of the arithmetic: the largest denominator of a result
Grid == 256
\* the image width of the sampling loop (main uses 2560)
ImageWidth == 4
\* the samples taken for a pixel (main uses 500)
SamplesPerPixel == 2

(***************************************************************************)
(* Evaluation.  A Rust `let` evaluates its expression once; Let(x, F) is   *)
(* F applied to the value of x, and Let2 the same for two expressions.     *)
(***************************************************************************)
Let(x, F(_)) == CHOOSE y \in { F(v) : v \in { x } } : TRUE
Let2(x1, x2, F(_, _)) ==
  CHOOSE y \in { F(v1, v2) : v1 \in { x1 }, v2 \in { x2 } } : TRUE

(***************************************************************************)
(* f64 arithmetic.                                                         *)
(***************************************************************************)
Abs(n) == IF n < 0 THEN -n ELSE n
Sign(n) == IF n < 0 THEN -1 ELSE 1

RECURSIVE GCD(_, _)
GCD(m, n) == IF n = 0 THEN m ELSE GCD(n, m % n)

\* n * k \div d for n, k, d >= 0, without forming n * k
MulDiv(n, k, d) == (n \div d) * k + ((n % d) * k) \div d

\* a constant written in the source, such as 0.001: n/d itself
Lit(n, d) == << n, d >>

\* the lowest terms of an/ad, rounded to the grid when ad exceeds it
Round(an, ad) ==
  IF ad <= Grid THEN << an, ad >>
  ELSE Let(MulDiv(an, Grid, ad),
           LAMBDA m : Let(GCD(m, Grid),
                          LAMBDA h : << m \div h, Grid \div h >>))

\* the f64 nearest to n/d towards zero (d # 0)
Rat(n, d) ==
  Let2(n, d, LAMBDA vn, vd :
    Let(GCD(Abs(vn), Abs(vd)), LAMBDA g :
      Let(Round(Abs(vn) \div g, Abs(vd) \div g), LAMBDA q :
        << Sign(vn) * Sign(vd) * q[1], q[2] >>)))

Q(n) == << n, 1 >>
Zero == Q(0)
One == Q(1)
Two == Q(2)
INFINITY == << 1, 0 >>

fadd(a, b) ==
  Let2(a, b, LAMBDA x, y : Rat(x[1] * y[2] + y[1] * x[2], x[2] * y[2]))
fneg(a) == Let(a, LAMBDA x : << -x[1], x[2] >>)
fsub(a, b) == fadd(a, fneg(b))
fmul(a, b) == Let2(a, b, LAMBDA x, y : Rat(x[1] * y[1], x[2] * y[2]))
fdiv(a, b) == Let2(a, b, LAMBDA x, y : Rat(x[1] * y[2], x[2] * y[1]))
fabs(a) == Let(a, LAMBDA x : << Abs(x[1]), x[2] >>)

\* a < b for finite a and b, comparing integer parts and then remainders
RECURSIVE Less(_, _)
Less(a, b) ==
  IF a[1] \div a[2] # b[1] \div b[2] THEN a[1] \div a[2] < b[1] \div b[2]
  ELSE IF a[1] % a[2] = 0 THEN b[1] % b[2] > 0
  ELSE IF b[1] % b[2] = 0 THEN FALSE
  ELSE Less(<< b[2], b[1] % b[2] >>, << a[2], a[1] % a[2] >>)

\* the f64 comparison a < b
flt(a, b) ==
  Let2(a, b, LAMBDA x, y :
    IF x[2] = 0 THEN FALSE
    ELSE IF y[2] = 0 THEN TRUE
    ELSE Less(x, y))
fle(a, b) == ~flt(b, a)
fmin(a, b) == Let2(a, b, LAMBDA x, y : IF flt(y, x) THEN y ELSE x)

RECURSIVE SqrtSearch(_, _, _)
SqrtSearch(n, lo, hi) ==
  IF lo >= hi THEN lo
  ELSE Let((lo + hi + 1) \div 2,
           LAMBDA mid : IF mid * mid <= n THEN SqrtSearch(n, mid, hi)
                                          ELSE SqrtSearch(n, lo, mid - 1))

\* the largest k with k * k <= n
ISqrt(n) == SqrtSearch(n, 0, IF n < 46340 THEN n ELSE 46340)

\* f64::sqrt of a >= 0
sqrt(a) ==
  Let(a, LAMBDA x :
    Let2(ISqrt(x[1]), ISqrt(x[2]), LAMBDA sn, sd :
      IF sn * sn = x[1] /\ sd * sd = x[2]
      THEN Rat(sn, sd)
      ELSE Rat(ISqrt(MulDiv(x[1], Grid * Grid, x[2])), Grid)))

(***************************************************************************)
(* Vec3: a triple of f64.  Point3 and Color are the same type.             *)
(***************************************************************************)
Vec3(x, y, z) == << x, y, z >>
V(x, y, z) == << Q(x), Q(y), Q(z) >>
Vec3_default == V(0, 0, 0)

neg(v) == Let(v, LAMBDA p : << fneg(p[1]), fneg(p[2]), fneg(p[3]) >>)
add(u, v) ==
  Let2(u, v, LAMBDA p, q :
    << fadd(p[1], q[1]), fadd(p[2], q[2]), fadd(p[3], q[3]) >>)
sub(u, v) ==
  Let2(u, v, LAMBDA p, q :
    << fsub(p[1], q[1]), fsub(p[2], q[2]), fsub(p[3], q[3]) >>)
\* Vec3 * f64 and f64 * Vec3
mul(v, t) ==
  Let2(v, t, LAMBDA p, k : << fmul(p[1], k), fmul(p[2], k), fmul(p[3], k) >>)
\* Vec3 * Vec3, component-wise
mul_vec(u, v) ==
  Let2(u, v, LAMBDA p, q :
    << fmul(p[1], q[1]), fmul(p[2], q[2]), fmul(p[3], q[3]) >>)
\* Vec3 / f64
div(v, t) ==
  Let2(v, t, LAMBDA p, k : << fdiv(p[1], k), fdiv(p[2], k), fdiv(p[3], k) >>)

dot(u, v) ==
  Let2(u, v, LAMBDA p, q :
    fadd(fadd(fmul(p[1], q[1]), fmul(p[2], q[2])), fmul(p[3], q[3])))
length_squared(v) ==
  Let(v, LAMBDA p :
    fadd(fadd(fmul(p[1], p[1]), fmul(p[2], p[2])), fmul(p[3], p[3])))
length(v) == sqrt(length_squared(v))
unit_vector(v) == Let(v, LAMBDA p : div(p, length(p)))

\* 1e-8, the threshold of near_zero
NearZeroS == Lit(1, 100000000)
near_zero(v) ==
  Let(v, LAMBDA p :
    /\ flt(fabs(p[1]), NearZeroS)
    /\ flt(fabs(p[2]), NearZeroS)
    /\ flt(fabs(p[3]), NearZeroS))

(***************************************************************************)
(* Ray.                                                                    *)
(***************************************************************************)
Ray(origin, direction) == [origin |-> origin, direction |-> direction]
Ray_default == Ray(Vec3_default, Vec3_default)
at(ray, t) == Let(ray, LAMBDA r : add(r.origin, mul(r.direction, t)))

(***************************************************************************)
(* Materials: the three implementations of the Material trait, as records. *)
(* A material is immutable; mat_ptr fields hold the record itself.         *)
(***************************************************************************)
Lambertian_new(albedo) ==
  [kind |-> "Lambertian", albedo |-> albedo, fuzz |-> Zero, ir |-> Zero]
Metal_new(albedo, fuzz) ==
  [kind |-> "Metal", albedo |-> albedo, fuzz |-> fuzz, ir |-> Zero]
Dielectric_new(ir) ==
  [kind |-> "Dielectric", albedo |-> Vec3_default, fuzz |-> Zero, ir |-> ir]

(***************************************************************************)
(* HitRecord.                                                              *)
(***************************************************************************)
HitRecord_default ==
  [ p |-> Vec3_default,
    normal |-> Vec3_default,
    mat_ptr |-> Metal_new(Vec3(Rat(7, 10), Rat(3, 10), Rat(3, 10)), One),
    t |-> Zero,
    front_face |-> FALSE ]

set_face_normal_flipped(self, r, outward_normal) ==
  IF flt(dot(r.direction, outward_normal), Zero)
  THEN [self EXCEPT !.front_face = TRUE, !.normal = neg(outward_normal)]
  ELSE [self EXCEPT !.front_face = FALSE, !.normal = outward_normal]

set_face_normal(self, r, outward_normal) ==
  IF flt(dot(r.direction, outward_normal), Zero)
  THEN [self EXCEPT !.front_face = TRUE, !.normal = outward_normal]
  ELSE [self EXCEPT !.front_face = FALSE, !.normal = neg(outward_normal)]

(***************************************************************************)
(* Sphere and its Hittable implementation.  A hit operator returns the     *)
(* bool of the call and the caller's record after the call.                *)
(***************************************************************************)
Sphere_new(center, radius, material) ==
  [center |-> center, radius |-> radius, mat_ptr |-> material]

\* the quadratic of Sphere::hit
Sphere_a(self, r) == length_squared(r.direction)
Sphere_half_b(self, r) == dot(sub(r.origin, self.center), r.direction)
Sphere_c(self, r) ==
  fsub(length_squared(sub(r.origin, self.center)),
       fmul(self.radius, self.radius))
Sphere_discriminant(self, r) ==
  Let(Sphere_half_b(self, r), LAMBDA half_b :
    fsub(fmul(half_b, half_b), fmul(Sphere_a(self, r), Sphere_c(self, r))))
Sphere_root_minus(self, r) ==
  fdiv(fsub(fneg(Sphere_half_b(self, r)), sqrt(Sphere_discriminant(self, r))),
       Sphere_a(self, r))
Sphere_root_plus(self, r) ==
  fdiv(fadd(fneg(Sphere_half_b(self, r)), sqrt(Sphere_discriminant(self, r))),
       Sphere_a(self, r))

\* the test `root < t_min || t_max < root`
out_of_range_no_max(root, t_min, t_max) == flt(root, t_min)
out_of_range_strict(root, t_min, t_max) == flt(root, t_min) \/ fle(t_max, root)
out_of_range(root, t_min, t_max) == flt(root, t_min) \/ flt(t_max, root)

\* the record writes of a successful Sphere::hit
Sphere_record(self, r, root, rec) ==
  Let(at(r, root), LAMBDA p :
    Let(div(sub(p, self.center), self.radius), LAMBDA outward_normal :
      Let(set_face_normal([rec EXCEPT !.t = root, !.p = p], r, outward_normal),
          LAMBDA faced : [faced EXCEPT !.mat_ptr = self.mat_ptr])))

\* the two roots are tried in turn
Sphere_try_small_only(self, r, t_min, t_max, rec) ==
  Let(Sphere_root_minus(self, r), LAMBDA root :
    IF out_of_range(root, t_min, t_max)
    THEN [hit |-> FALSE, rec |-> rec]
    ELSE [hit |-> TRUE, rec |-> Sphere_record(self, r, root, rec)])

Sphere_try_roots(self, r, t_min, t_max, rec) ==
  Let(Sphere_root_minus(self, r), LAMBDA root :
    IF out_of_range(root, t_min, t_max)
    THEN Let(Sphere_root_plus(self, r), LAMBDA root2 :
           IF out_of_range(root2, t_min, t_max)
           THEN [hit |-> FALSE, rec |-> rec]
           ELSE [hit |-> TRUE, rec |-> Sphere_record(self, r, root2, rec)])
    ELSE [hit |-> TRUE, rec |-> Sphere_record(self, r, root, rec)])

Sphere_hit(self, r, t_min, t_max, rec) ==
  IF flt(Sphere_discriminant(self, r), Zero)
  THEN [hit |-> FALSE, rec |-> rec]
  ELSE Sphere_try_roots(self, r, t_min, t_max, rec)

(***************************************************************************)
(* HittableList and its Hittable implementation.                           *)
(***************************************************************************)
HittableList_new == << >>
HittableList_add(objects, object) == Append(objects, object)

\* the locals of HittableList::hit before the loop
HitLoop_start(t_max, rec) ==
  [ temp_rec |-> HitRecord_default,
    hit_anything |-> FALSE,
    closest_so_far |-> t_max,
    rec |-> rec ]

\* one iteration of the loop over self.objects
HitLoop_body_no_shrink(loc, object, r, t_min) ==
  Let(Sphere_hit(object, r, t_min, loc.closest_so_far, loc.temp_rec),
      LAMBDA h :
        IF h.hit
        THEN [ temp_rec |-> h.rec,
               hit_anything |-> TRUE,
               closest_so_far |-> loc.closest_so_far,
               rec |-> h.rec ]
        ELSE loc)

HitLoop_body_always_writes(loc, object, r, t_min) ==
  Let(Sphere_hit(object, r, t_min, loc.closest_so_far, loc.temp_rec),
      LAMBDA h :
        [ temp_rec |-> h.rec,
          hit_anything |-> loc.hit_anything \/ h.hit,
          closest_so_far |-> IF h.hit THEN h.rec.t ELSE loc.closest_so_far,
          rec |-> h.rec ])

HitLoop_body(loc, object, r, t_min) ==
  Let(Sphere_hit(object, r, t_min, loc.closest_so_far, loc.temp_rec),
      LAMBDA h :
        IF h.hit
        THEN [ temp_rec |-> h.rec,
               hit_anything |-> TRUE,
               closest_so_far |-> h.rec.t,
               rec |-> h.rec ]
        ELSE loc)

RECURSIVE HitLoop(_, _, _, _, _)
HitLoop(loc, objects, i, r, t_min) ==
  IF i > Len(objects) THEN loc
  ELSE Let(HitLoop_body(loc, objects[i], r, t_min),
           LAMBDA next : HitLoop(next, objects, i + 1, r, t_min))

HittableList_hit(objects, r, t_min, t_max, rec) ==
  Let(HitLoop(HitLoop_start(t_max, rec), objects, 1, r, t_min),
      LAMBDA loc : [hit |-> loc.hit_anything, rec |-> loc.rec])

(***************************************************************************)
(* The random sources.  A draw is a nondeterministic choice from a small   *)
(* set of values the generator can return.                                 *)
(***************************************************************************)
\* random_float(): a value in [0, 1)
random_float == { Zero, Rat(1, 2), Rat(9, 10) }

\* Vec3::random_range(-1.0, 1.0): the last one lies outside the unit ball
random_range == { Vec3(Rat(1, 2), Zero, Zero), Vec3(Zero, Rat(1, 2), Zero),
                  Vec3(Zero, Rat(-1, 2), Zero), Vec3(Zero, Zero, Rat(-1, 2)),
                  Vec3(Rat(-9, 10), Rat(9, 10), Zero) }

\* the loop draws again while length_squared >= 1.0
random_in_unit_sphere == { p \in random_range : flt(length_squared(p), One) }

random_unit_vector == { unit_vector(p) : p \in random_in_unit_sphere }

(***************************************************************************)
(* Material::scatter.  A scatter operator takes the draw it consumes and   *)
(* returns the bool of the call with the two outputs it writes.            *)
(***************************************************************************)
reflect(v, n) ==
  Let2(v, n, LAMBDA p, q : sub(p, mul(mul(q, dot(p, q)), Two)))

refract(uv, n, etai_over_etat) ==
  Let(fmin(dot(neg(uv), n), One), LAMBDA cos_theta :
    Let(mul(add(uv, mul(n, cos_theta)), etai_over_etat), LAMBDA r_out_perp :
      Let(mul(n, fneg(sqrt(fabs(fsub(One, length_squared(r_out_perp)))))),
          LAMBDA r_out_parallel : add(r_out_perp, r_out_parallel))))

Lambertian_scatter(self, r_in, rec, rnd) ==
  Let(add(rec.normal, rnd), LAMBDA sum :
    [ scatter |-> TRUE,
      attenuation |-> self.albedo,
      scattered |-> Ray(rec.p, IF near_zero(sum) THEN rec.normal ELSE sum) ])

Metal_scatter_always(self, r_in, rec, rnd) ==
  Let(reflect(unit_vector(r_in.direction), rec.normal), LAMBDA reflected :
    Let(Ray(rec.p, add(reflected, mul(rnd, self.fuzz))), LAMBDA scattered :
      [ scatter |-> TRUE,
        attenuation |-> self.albedo,
        scattered |-> scattered ]))

Metal_scatter(self, r_in, rec, rnd) ==
  Let(reflect(unit_vector(r_in.direction), rec.normal), LAMBDA reflected :
    Let(Ray(rec.p, add(reflected, mul(rnd, self.fuzz))), LAMBDA scattered :
      [ scatter |-> flt(Zero, dot(scattered.direction, rec.normal)),
        attenuation |-> self.albedo,
        scattered |-> scattered ]))

\* f64::powi(x, 5)
powi5(x) == Let(x, LAMBDA v : fmul(fmul(fmul(fmul(v, v), v), v), v))

Dielectric_reflectance(cosine, ref_idx) ==
  Let(fdiv(fsub(One, ref_idx), fadd(One, ref_idx)), LAMBDA r :
    Let(fmul(r, r), LAMBDA r0 :
      fadd(r0, fmul(fsub(One, r0), powi5(fsub(One, cosine))))))

\* the direction Dielectric::scatter chooses
Dielectric_direction(unit_direction, rec, refraction_ratio, rnd) ==
  Let(fmin(dot(neg(unit_direction), rec.normal), One), LAMBDA cos_theta :
    Let(sqrt(fsub(One, fmul(cos_theta, cos_theta))), LAMBDA sin_theta :
      IF flt(One, fmul(refraction_ratio, sin_theta))
         \/ flt(rnd, Dielectric_reflectance(cos_theta, refraction_ratio))
      THEN reflect(unit_direction, rec.normal)
      ELSE refract(unit_direction, rec.normal, refraction_ratio)))

Dielectric_scatter(self, r_in, rec, rnd) ==
  Let2(IF rec.front_face THEN fdiv(One, self.ir) ELSE self.ir,
       unit_vector(r_in.direction),
       LAMBDA refraction_ratio, unit_direction :
         [ scatter |-> TRUE,
           attenuation |-> V(1, 1, 1),
           scattered |->
             Ray(rec.p, Dielectric_direction(unit_direction, rec,
                                             refraction_ratio, rnd)) ])

\* the draws a material's scatter can consume
scatter_draws(mat) ==
  CASE mat.kind = "Lambertian" -> random_unit_vector
    [] mat.kind = "Metal" -> random_in_unit_sphere
    [] mat.kind = "Dielectric" -> random_float

\* dynamic dispatch on rec.mat_ptr
scatter(mat, r_in, rec, rnd) ==
  CASE mat.kind = "Lambertian" -> Lambertian_scatter(mat, r_in, rec, rnd)
    [] mat.kind = "Metal" -> Metal_scatter(mat, r_in, rec, rnd)
    [] mat.kind = "Dielectric" -> Dielectric_scatter(mat, r_in, rec, rnd)

(***************************************************************************)
(* ray_color: the pieces of its body.                                      *)
(***************************************************************************)
\* the test `depth <= 0`
depth_exhausted_neg(depth) == depth < 0
depth_exhausted(depth) == depth <= 0

\* the range of the scene test: world.hit(r, 0.001, INFINITY, rec)
ShadowEpsilon == Lit(1, 1000)
world_hit(objects, r) ==
  HittableList_hit(objects, r, ShadowEpsilon, INFINITY, HitRecord_default)

\* the depth handed to the recursive call
inner_depth_same(depth) == depth
inner_depth(depth) == depth - 1

\* attenuation * ray_color(scattered, world, depth - 1)
attenuate_dropped(attenuation, inner) == inner
attenuate(attenuation, inner) == mul_vec(attenuation, inner)

\* the value returned when the material declines to scatter
absorbed_color(attenuation) == Vec3_default

\* the gradient returned when the ray hits nothing
background(r) ==
  Let(unit_vector(r.direction), LAMBDA unit_direction :
    Let(fmul(fadd(unit_direction[2], One), Rat(1, 2)), LAMBDA t :
      add(mul(V(1, 1, 1), fsub(One, t)),
          mul(Vec3(Rat(1, 2), Rat(7, 10), One), t))))

(***************************************************************************)
(* Camera.                                                                 *)
(***************************************************************************)
cross(u, v) ==
  Let2(u, v, LAMBDA p, q :
    << fsub(fmul(p[2], q[3]), fmul(p[3], q[2])),
       fsub(fmul(p[3], q[1]), fmul(p[1], q[3])),
       fsub(fmul(p[1], q[2]), fmul(p[2], q[1])) >>)

\* (theta / 2.0).tan() for vfov = 20.0
TanHalfFov == Rat(45, 256)
\* 16.0 / 9.0
aspect_ratio == Rat(16, 9)

Camera_new(lookfrom, lookat, vup, h, aspect, aperture, focus_dist) ==
  Let(unit_vector(sub(lookfrom, lookat)), LAMBDA w :
    Let(unit_vector(cross(vup, w)), LAMBDA u :
      Let(cross(w, u), LAMBDA v :
        Let2(mul(u, fmul(focus_dist, fmul(aspect, fmul(Two, h)))),
             mul(v, fmul(focus_dist, fmul(Two, h))),
             LAMBDA horizontal, vertical :
               [ origin |-> lookfrom,
                 horizontal |-> horizontal,
                 vertical |-> vertical,
                 lower_left_corner |->
                   sub(sub(sub(lookfrom, div(horizontal, Two)),
                           div(vertical, Two)),
                       mul(w, focus_dist)),
                 lens_radius |-> fdiv(aperture, Two),
                 u |-> u,
                 v |-> v ]))))

\* the camera main builds
cam ==
  Camera_new(V(13, 2, 3), V(0, 0, 0), V(0, 1, 0), TanHalfFov, aspect_ratio,
             Rat(1, 10), Q(10))

\* Vec3::random_in_unit_disk(): the loop draws again while outside the disk
random_in_unit_disk ==
  { p \in { Vec3(Rat(1, 2), Zero, Zero), Vec3(Zero, Rat(-1, 2), Zero),
            Vec3(Rat(9, 10), Rat(9, 10), Zero) } :
      flt(length_squared(p), One) }

\* Camera::get_ray, with the point of the disk it draws
get_ray(self, s, t, disk) ==
  Let(mul(disk, self.lens_radius), LAMBDA rd :
    Let(add(mul(self.u, rd[1]), mul(self.v, rd[2])), LAMBDA offset :
      Ray(add(self.origin, offset),
          sub(sub(add(add(self.lower_left_corner, mul(self.horizontal, s)),
                      mul(self.vertical, t)),
                  self.origin),
              offset))))

(***************************************************************************)
(* main: the image and the coordinates of a sample.                        *)
(***************************************************************************)
image_width == ImageWidth
\* (image_width as f64 / aspect_ratio) as i64
image_height == (image_width * aspect_ratio[2]) \div aspect_ratio[1]
samples_per_pixel == SamplesPerPixel

\* (draw as f64 + random_float()) / (size as f64 - 1.0)
sample_coord(draw, jitter, size) ==
  fdiv(fadd(Q(draw), jitter), fsub(Q(size), One))

(***************************************************************************)
(* The scenes, rays and ranges the operations are applied to.              *)
(***************************************************************************)
material1 == Dielectric_new(Rat(3, 2))
material2 == Lambertian_new(Vec3(Rat(2, 5), Rat(1, 5), Rat(1, 10)))
material3 == Metal_new(Vec3(Rat(7, 10), Rat(3, 5), Rat(1, 2)), Zero)
material_fuzzy == Metal_new(Vec3(Rat(1, 2), Rat(1, 2), Rat(1, 2)), Rat(1, 2))

\* the spheres a scene is assembled from
SphereCatalogue ==
  { Sphere_new(V(0, 0, -2), Q(1), material2),
    Sphere_new(V(0, 0, -3), Q(2), material3),
    Sphere_new(V(0, 0, 0), Q(2), material1),
    Sphere_new(V(0, -10, 0), Q(10), material_fuzzy) }

\* the rays handed to hit and to ray_color; every direction is non-zero
RayInputs ==
  { Ray(V(0, 0, 0), V(0, 0, -1)),
    Ray(V(0, 0, 0), V(0, 0, -2)),
    Ray(V(0, 0, 0), V(0, 1, 0)),
    Ray(V(0, 1, 0), V(0, 0, -1)),
    Ray(V(0, 0, 0), V(0, 1, -2)),
    Ray(V(0, 0, -2), V(0, -1, 0)) }

\* the t_min and t_max handed to hit; 0.001 and INFINITY are ray_color's
TMinInputs == { Lit(1, 1000), One }
TMaxInputs == { INFINITY, Q(3), One }

\* the caller's record as the call finds it: left by an earlier call
StaleRecord ==
  [ p |-> V(0, 0, 7), normal |-> V(0, 0, 1), mat_ptr |-> material2,
    t |-> Q(7), front_face |-> TRUE ]

(***************************************************************************)
(* The state.                                                              *)
(***************************************************************************)
VARIABLES
  world,        \* the HittableList: the sequence of its objects
  call,         \* the hit call made on the scene: callee, index, r, t_min, t_max
  rec,          \* the caller's HitRecord
  ret,          \* the bool the hit call returned
  stack,        \* the active ray_color calls, the innermost last
  phase,        \* where the innermost ray_color call stands
  retval,       \* the Color the last finished ray_color call returned
  trace,        \* what the ray_color calls have done so far
  scat,         \* the last Material::scatter call and what it returned
  draw_height,  \* main's loop variables
  draw_width,
  sample,
  coords        \* the coordinates handed to get_ray and the ray it returned

hit_vars == << call, rec, ret >>
color_vars == << stack, phase, retval, trace, scat >>
main_vars == << draw_height, draw_width, sample, coords >>
vars == << world, hit_vars, color_vars, main_vars >>

NoCall == [callee |-> "none", index |-> 0, r |-> Ray_default,
           t_min |-> Zero, t_max |-> Zero]
NoScatter == [mat |-> HitRecord_default.mat_ptr, r_in |-> Ray_default,
              rec |-> HitRecord_default, rnd |-> Zero, made |-> FALSE,
              out |-> [scatter |-> FALSE, attenuation |-> Vec3_default,
                       scattered |-> Ray_default]]
NoTrace == [calls |-> 0, hits |-> 0, scatters |-> 0, steps |-> 0,
            path |-> << >>, term |-> "none", last |-> Ray_default]
NoCoords == [u |-> Zero, v |-> Zero, r |-> Ray_default, taken |-> FALSE]

HitIdle == call = NoCall /\ rec = HitRecord_default /\ ret = FALSE
ColorIdle ==
  /\ stack = << >> /\ phase = "idle" /\ retval = Vec3_default
  /\ trace = NoTrace /\ scat = NoScatter
MainIdle ==
  /\ draw_height = 0 /\ draw_width = 0 /\ sample = 0
  /\ coords = NoCoords

(***************************************************************************)
(* Scene assembly and the intersection tests: the scene is assembled with  *)
(* HittableList::add, then one hit call is made on it, on one member or on *)
(* the list.                                                               *)
(***************************************************************************)
InitHit ==
  /\ world = HittableList_new
  /\ call = NoCall
  /\ rec = StaleRecord
  /\ ret = FALSE
  /\ ColorIdle
  /\ MainIdle

Add(object) ==
  /\ call.callee = "none"
  /\ Len(world) < MaxObjects
  /\ world' = HittableList_add(world, object)
  /\ UNCHANGED << hit_vars, color_vars, main_vars >>

CallSphereHit(i, r, t_min, t_max) ==
  /\ call.callee = "none"
  /\ \E h \in { Sphere_hit(world[i], r, t_min, t_max, rec) } :
       /\ rec' = h.rec
       /\ ret' = h.hit
  /\ call' = [callee |-> "Sphere", index |-> i, r |-> r,
              t_min |-> t_min, t_max |-> t_max]
  /\ UNCHANGED << world, color_vars, main_vars >>

CallListHit(r, t_min, t_max) ==
  /\ call.callee = "none"
  /\ \E h \in { HittableList_hit(world, r, t_min, t_max, rec) } :
       /\ rec' = h.rec
       /\ ret' = h.hit
  /\ call' = [callee |-> "HittableList", index |-> 0, r |-> r,
              t_min |-> t_min, t_max |-> t_max]
  /\ UNCHANGED << world, color_vars, main_vars >>

NextHit ==
  \/ \E object \in SphereCatalogue : Add(object)
  \/ \E i \in 1..Len(world), r \in RayInputs,
        t_min \in TMinInputs, t_max \in TMaxInputs :
       CallSphereHit(i, r, t_min, t_max)
  \/ \E r \in RayInputs, t_min \in TMinInputs, t_max \in TMaxInputs :
       CallListHit(r, t_min, t_max)

SpecHit == InitHit /\ [][NextHit]_vars

(***************************************************************************)
(* ray_color on an assembled scene.  The stack holds a frame for every     *)
(* active call: its arguments r and depth, the attenuation its scatter     *)
(* wrote, and the scene tests and scatter calls it has made.  rec and ret  *)
(* are the record and the result of the scene test of the innermost call.  *)
(***************************************************************************)
\* the scenes ray_color is called on: none, one or two spheres added
SceneInputs ==
  { HittableList_new }
    \cup { HittableList_add(HittableList_new, s) : s \in SphereCatalogue }
    \cup { HittableList_add(HittableList_add(HittableList_new, p[1]), p[2]) :
             p \in { q \in SphereCatalogue \X SphereCatalogue : q[1] # q[2] } }

Frame(r, depth) ==
  [r |-> r, depth |-> depth, attenuation |-> Vec3_default,
   hits |-> 0, scatters |-> 0]

Top == stack[Len(stack)]

InitColor ==
  /\ world \in SceneInputs
  /\ HitIdle
  /\ MainIdle
  /\ \E r \in RayInputs, depth \in -1..MaxDepth :
       /\ stack = << Frame(r, depth) >>
       /\ trace = [NoTrace EXCEPT !.calls = 1]
  /\ phase = "body"
  /\ retval = Vec3_default
  /\ scat = NoScatter

\* `if depth <= 0 { return Vec3::default(); }`
RayColorExhausted ==
  /\ phase = "body"
  /\ depth_exhausted(Top.depth)
  /\ retval' = Vec3_default
  /\ phase' = "return"
  /\ trace' = [trace EXCEPT !.steps = @ + 1, !.term = "exhausted",
                            !.last = Top.r]
  /\ UNCHANGED << world, hit_vars, stack, scat, main_vars >>

\* `world.hit(r, 0.001, INFINITY, &mut rec)` on a fresh record
RayColorHitTest ==
  /\ phase = "body"
  /\ ~depth_exhausted(Top.depth)
  /\ \E h \in { world_hit(world, Top.r) } :
       /\ rec' = h.rec
       /\ ret' = h.hit
  /\ call' = [callee |-> "HittableList", index |-> 0, r |-> Top.r,
              t_min |-> ShadowEpsilon, t_max |-> INFINITY]
  /\ phase' = "tested"
  /\ stack' = [stack EXCEPT ![Len(stack)].hits = @ + 1]
  /\ trace' = [trace EXCEPT !.steps = @ + 1, !.hits = @ + 1]
  /\ UNCHANGED << world, retval, scat, main_vars >>

\* the scene test failed: the gradient is returned
RayColorBackground ==
  /\ phase = "tested"
  /\ ~ret
  /\ retval' = background(Top.r)
  /\ phase' = "return"
  /\ trace' = [trace EXCEPT !.steps = @ + 1, !.term = "background",
                            !.last = Top.r]
  /\ UNCHANGED << world, hit_vars, stack, scat, main_vars >>

\* the Material::scatter call of the innermost ray_color call
ScatterCall(rnd) ==
  [mat |-> rec.mat_ptr, r_in |-> Top.r, rec |-> rec, rnd |-> rnd,
   made |-> TRUE, out |-> scatter(rec.mat_ptr, Top.r, rec, rnd)]

\* the material scatters: the recursive call is made
RayColorScattered(rnd) ==
  /\ phase = "tested"
  /\ ret
  /\ \E sc \in { ScatterCall(rnd) } :
       /\ sc.out.scatter
       /\ scat' = sc
       /\ stack' = Append(
            [stack EXCEPT ![Len(stack)].attenuation = sc.out.attenuation,
                          ![Len(stack)].scatters = @ + 1],
            Frame(sc.out.scattered, inner_depth(Top.depth)))
       /\ trace' = [trace EXCEPT !.steps = @ + 1, !.calls = @ + 1,
                                 !.scatters = @ + 1,
                                 !.path = Append(@, sc.out.attenuation)]
  /\ phase' = "body"
  /\ UNCHANGED << world, hit_vars, retval, main_vars >>

\* the material declines: black is returned
RayColorAbsorbed(rnd) ==
  /\ phase = "tested"
  /\ ret
  /\ \E sc \in { ScatterCall(rnd) } :
       /\ ~sc.out.scatter
       /\ scat' = sc
       /\ stack' = [stack EXCEPT
                      ![Len(stack)].attenuation = sc.out.attenuation,
                      ![Len(stack)].scatters = @ + 1]
       /\ retval' = absorbed_color(sc.out.attenuation)
  /\ phase' = "return"
  /\ trace' = [trace EXCEPT !.steps = @ + 1, !.scatters = @ + 1,
                            !.term = "absorbed", !.last = Top.r]
  /\ UNCHANGED << world, hit_vars, main_vars >>

\* a recursive call returns: its caller multiplies and returns in turn
RayColorReturn ==
  /\ phase = "return"
  /\ Len(stack) > 1
  /\ stack' = SubSeq(stack, 1, Len(stack) - 1)
  /\ retval' = attenuate(stack[Len(stack) - 1].attenuation, retval)
  /\ trace' = [trace EXCEPT !.steps = @ + 1]
  /\ UNCHANGED << world, hit_vars, phase, scat, main_vars >>

\* the outermost call returns to main
RayColorFinish ==
  /\ phase = "return"
  /\ Len(stack) = 1
  /\ phase' = "done"
  /\ trace' = [trace EXCEPT !.steps = @ + 1]
  /\ UNCHANGED << world, hit_vars, stack, retval, scat, main_vars >>

NextColor ==
  \/ RayColorExhausted
  \/ RayColorHitTest
  \/ RayColorBackground
  \/ \E rnd \in scatter_draws(rec.mat_ptr) : RayColorScattered(rnd)
  \/ \E rnd \in scatter_draws(rec.mat_ptr) : RayColorAbsorbed(rnd)
  \/ RayColorReturn
  \/ RayColorFinish

SpecColor == InitColor /\ [][NextColor]_vars

\* every call runs to its end: ray_color has no suspension point
FairColor == SpecColor /\ WF_vars(NextColor)

(***************************************************************************)
(* Claims on the intersection tests (SpecHit).                             *)
(***************************************************************************)
SphereCalled == call.callee = "Sphere"
ListCalled == call.callee = "HittableList"

\* the range Sphere::hit accepts a root in
InRange(x) == fle(call.t_min, x) /\ fle(x, call.t_max)

\* the intersections of member i with the ray of the call, in range
MemberRoots(i) ==
  IF flt(Sphere_discriminant(world[i], call.r), Zero) THEN {}
  ELSE { x \in { Sphere_root_minus(world[i], call.r),
                 Sphere_root_plus(world[i], call.r) } : InRange(x) }

AllRoots == UNION { MemberRoots(i) : i \in 1..Len(world) }

\* the least of a non-empty set of distances
Nearest(roots) == CHOOSE x \in roots : \A y \in roots : fle(x, y)

\* the members that intersect the ray at the distance x, in range
MembersAt(x) == { i \in 1..Len(world) : x \in MemberRoots(i) }

\* C1: HittableList::hit returns true exactly when some member has an
\* intersection in range, and then the record holds the least t over all
\* members' intersections in range, with the material of a member that
\* intersects there.
C1_NearestHit ==
  ListCalled =>
    \E roots \in { AllRoots } :
      /\ ret = (roots # {})
      /\ ret => /\ rec.t = Nearest(roots)
                /\ \E i \in MembersAt(rec.t) : rec.mat_ptr = world[i].mat_ptr

\* a list of two members in which the later one is the nearer
C1_Witness ==
  /\ ListCalled /\ ret /\ Len(world) = 2
  /\ MemberRoots(1) # {} /\ MemberRoots(2) # {}
  /\ \A x \in MemberRoots(1) : flt(rec.t, x)
  /\ rec.mat_ptr = world[2].mat_ptr /\ rec.mat_ptr # world[1].mat_ptr

\* the record member i writes when it is hit at the distance x
MemberRecord(i, x) == Sphere_record(world[i], call.r, x, HitRecord_default)

FirstOf(S) == CHOOSE i \in S : \A j \in S : i <= j
LastOf(S) == CHOOSE i \in S : \A j \in S : j <= i

\* C2 as claimed: when members tie at the nearest distance, the record is
\* the one of the first of them in insertion order.
C2_FirstWinsTie ==
  (ListCalled /\ ret) => rec = MemberRecord(FirstOf(MembersAt(Nearest(AllRoots))), rec.t)

\* C2 as amended: when members tie at the nearest distance, the record is
\* the one of the last of them in insertion order (a later member replaces
\* the best hit so far when its t is smaller or equal).
C2_LastWinsTie ==
  (ListCalled /\ ret) => rec = MemberRecord(LastOf(MembersAt(Nearest(AllRoots))), rec.t)

\* two members with different materials tie at the nearest distance
C2_Witness ==
  /\ ListCalled /\ ret
  /\ Cardinality(MembersAt(rec.t)) = 2
  /\ world[1].mat_ptr # world[2].mat_ptr
  /\ rec.mat_ptr = world[2].mat_ptr

\* C3 as claimed: a hit is reported only at a t with t_min < t <= t_max.
C3_HalfOpenRange ==
  ((SphereCalled \/ ListCalled) /\ ret) =>
    flt(call.t_min, rec.t) /\ fle(rec.t, call.t_max)

\* C3 as amended: a hit is reported only at a t with t_min <= t <= t_max;
\* a root equal to t_min and a root equal to t_max are both accepted.
C3_ClosedRange ==
  /\ ((SphereCalled \/ ListCalled) /\ ret) =>
       fle(call.t_min, rec.t) /\ fle(rec.t, call.t_max)
  /\ (SphereCalled /\ ~ret) =>
       MemberRoots(call.index) = {}

\* a hit at a root equal to t_min
C3_Witness == SphereCalled /\ ret /\ rec.t = call.t_min

\* the geometric outward normal at the hit point of member i
OutwardNormal(i) == div(sub(rec.p, world[i].center), world[i].radius)

\* C6: after a successful Sphere::hit, front_face is true exactly when
\* dot(r.direction, outward_normal) < 0, the normal stored is
\* outward_normal then and its negation otherwise, and in every hit record
\* dot(r.direction, normal) <= 0.
C6_FaceNormal ==
  /\ (SphereCalled /\ ret) =>
       LET outward_normal == OutwardNormal(call.index)
       IN  /\ rec.front_face = flt(dot(call.r.direction, outward_normal), Zero)
           /\ rec.normal = IF rec.front_face THEN outward_normal
                           ELSE neg(outward_normal)
  /\ ((SphereCalled \/ ListCalled) /\ ret) =>
       fle(dot(call.r.direction, rec.normal), Zero)

\* a hit from inside: the outward normal points along the ray and is negated
C6_Witness ==
  /\ SphereCalled /\ ret /\ ~rec.front_face
  /\ flt(Zero, dot(call.r.direction, OutwardNormal(call.index)))
  /\ rec.normal = neg(OutwardNormal(call.index))

\* C10: Sphere::hit returns the smaller root when it is in range, the
\* larger root when only that one is in range, and no hit when neither is
\* or the discriminant is negative; a ray from inside the sphere whose
\* smaller root is below t_min is hit at the larger root with front_face
\* false.
C10_RootChoice ==
  SphereCalled =>
    LET self == world[call.index]
        disc_ok == ~flt(Sphere_discriminant(self, call.r), Zero)
        small == Sphere_root_minus(self, call.r)
        large == Sphere_root_plus(self, call.r)
        inside == flt(Sphere_c(self, call.r), Zero)
    IN  /\ ret = (disc_ok /\ (InRange(small) \/ InRange(large)))
        /\ (ret /\ InRange(small)) => rec.t = small
        /\ (ret /\ ~InRange(small)) => rec.t = large
        /\ (ret /\ inside /\ flt(small, call.t_min)) =>
             rec.t = large /\ ~rec.front_face

\* a ray from inside a sphere, hit at the larger root
C10_Witness ==
  /\ SphereCalled /\ ret
  /\ flt(Sphere_c(world[call.index], call.r), Zero)
  /\ flt(Sphere_root_minus(world[call.index], call.r), call.t_min)
  /\ rec.t = Sphere_root_plus(world[call.index], call.r)
  /\ ~rec.front_face

\* the locals of HittableList::hit after its first i iterations, on a call
\* that found the caller's record as before
LocalsAfter(i, r, t_min, t_max, before) ==
  HitLoop(HitLoop_start(t_max, before), SubSeq(world, 1, i), 1, r, t_min)

\* iteration i of the loop leaves the caller's record alone when member i
\* reports no hit
IterationFrame(i, r, t_min, t_max, before) ==
  \E loc \in { LocalsAfter(i - 1, r, t_min, t_max, before) } :
    ~Sphere_hit(world[i], r, t_min, loc.closest_so_far, loc.temp_rec).hit =>
      LocalsAfter(i, r, t_min, t_max, before).rec = loc.rec

\* a step that makes a hit call: the scene is as it was; the record is as it
\* was when the call returns false; and the record HittableList::hit leaves
\* is that of its loop, which writes it only where a member reported a hit
HitCallFrame ==
  (call.callee = "none" /\ call'.callee # "none") =>
    /\ world' = world
    /\ ~ret' => rec' = rec
    /\ call'.callee = "HittableList" =>
         /\ rec' = LocalsAfter(Len(world), call'.r, call'.t_min, call'.t_max,
                               rec).rec
         /\ \A i \in 1..Len(world) :
              IterationFrame(i, call'.r, call'.t_min, call'.t_max, rec)

\* C11: when Sphere::hit or HittableList::hit returns false, the caller's
\* record is exactly as it was before the call; HittableList::hit writes the
\* caller's record only in iterations where a member reported a hit; and
\* neither operation modifies the objects or the materials of the scene.
C11_FrameEffect == [][HitCallFrame]_vars

\* HittableList::hit returned false on a scene of two members, one of which
\* the line of the ray meets outside the range, and the caller's record,
\* which is not a default record, is as the call found it
C11_Witness ==
  /\ ListCalled /\ ~ret
  /\ Len(world) >= 2
  /\ \E i \in 1..Len(world) :
       ~flt(Sphere_discriminant(world[i], call.r), Zero)
  /\ rec = StaleRecord
  /\ rec # HitRecord_default

(***************************************************************************)
(* Claims on ray_color (SpecColor).                                        *)
(***************************************************************************)
Returned == phase \in { "return", "done" }
Black == V(0, 0, 0)

\* C4: a ray_color call with depth <= 0 returns black and makes neither a
\* scene test nor a scatter call.
C4_ExhaustedBlack ==
  (Returned /\ Top.depth <= 0) =>
    /\ retval = Black
    /\ Top.hits = 0
    /\ Top.scatters = 0

\* a call with depth 0 on a scene its ray would hit has returned
C4_Witness ==
  /\ Returned /\ Top.depth = 0
  /\ Len(stack) > 1
  /\ world_hit(world, Top.r).hit

\* C5: a call ray_color(r, world, d) with d >= 0 makes a chain of at most
\* d + 1 nested calls, at most d scene tests and at most d scatter calls,
\* each recursive call with the depth of its caller less one, and it ends:
\* it takes at most 3 * (d + 1) steps and is never stuck before its end.
C5_BoundedRecursion ==
  stack[1].depth >= 0 =>
    /\ Len(stack) <= stack[1].depth + 1
    /\ trace.calls <= stack[1].depth + 1
    /\ trace.hits <= stack[1].depth
    /\ trace.scatters <= stack[1].depth
    /\ \A i \in 2..Len(stack) : stack[i].depth = stack[i - 1].depth - 1
    /\ trace.steps <= 3 * (stack[1].depth + 1)
    /\ phase # "done" => ENABLED NextColor

\* a chain of MaxDepth + 1 calls: every call but the last hit and scattered
C5_Witness ==
  /\ stack[1].depth = MaxDepth
  /\ Len(stack) = MaxDepth + 1
  /\ trace.hits = MaxDepth /\ trace.scatters = MaxDepth
  /\ phase = "return"

\* the value at the end of the path: black, or the gradient of the last ray
TerminalValue ==
  IF trace.term = "background" THEN background(trace.last) ELSE Black

\* the attenuations of the scatters from call k on, times the terminal value
RECURSIVE Along(_, _)
Along(k, terminal) ==
  IF k > Len(trace.path) THEN terminal
  ELSE mul_vec(trace.path[k], Along(k + 1, terminal))

\* C8: a call with depth > 0 returns the gradient when its ray hits
\* nothing, black when the material declines, and otherwise the attenuation
\* times the value of the recursive call: the value of a call is the
\* product of the attenuations along the path times black or the gradient
\* of the last ray.
C8_PathProduct ==
  Returned =>
    /\ retval = Along(Len(stack), TerminalValue)
    /\ (Len(stack) = trace.calls /\ Top.depth > 0 /\ ~ret) =>
         trace.term = "background" /\ retval = background(Top.r)
    /\ (Len(stack) = trace.calls /\ Top.depth > 0 /\ ret) =>
         trace.term = "absorbed" /\ ~scat.out.scatter /\ retval = Black
    /\ (Len(stack) = trace.calls /\ Top.depth <= 0) =>
         trace.term = "exhausted"

\* the outermost call returns a colour that is not black, after a scatter
\* whose attenuation is not white
C8_Witness ==
  /\ phase = "done"
  /\ Len(trace.path) >= 1
  /\ trace.path[1] # V(1, 1, 1)
  /\ trace.term = "background"
  /\ retval # Black
  /\ retval # background(trace.last)

\* C9: Metal::scatter returns true exactly when reflect(unit(incoming),
\* normal) + fuzz * random_in_unit_sphere() has a positive dot product with
\* the normal; the attenuation it writes is the albedo either way; when it
\* returns false, the ray_color call returns black.
C9_MetalScatter ==
  (scat.made /\ scat.mat.kind = "Metal") =>
    \E outgoing \in { add(reflect(unit_vector(scat.r_in.direction),
                                  scat.rec.normal),
                          mul(scat.rnd, scat.mat.fuzz)) } :
      /\ scat.out.scatter = flt(Zero, dot(outgoing, scat.rec.normal))
      /\ scat.out.attenuation = scat.mat.albedo
      /\ scat.out.scattered = Ray(scat.rec.p, outgoing)
      /\ (~scat.out.scatter /\ Len(stack) = trace.calls) =>
           /\ Returned
           /\ Top.r = scat.r_in
           /\ retval = Black

\* a metal declined to scatter and the call has returned
C9_Witness ==
  /\ scat.made /\ scat.mat.kind = "Metal"
  /\ ~scat.out.scatter
  /\ scat.out.attenuation # Black
  /\ Returned /\ Len(stack) = trace.calls

(***************************************************************************)
(* The sampling loop of main.  The ray of a sample is traced by ray_color  *)
(* as SpecColor has it; the colour of the pixel is not kept here.          *)
(***************************************************************************)
InitMain ==
  /\ world = HittableList_new
  /\ HitIdle
  /\ ColorIdle
  /\ draw_height = image_height - 1
  /\ draw_width = 0
  /\ sample = 0
  /\ coords = NoCoords

\* one pass of `for _ in 0..samples_per_pixel`
TakeSample(jitter_u, jitter_v, disk) ==
  /\ draw_height >= 0
  /\ sample < samples_per_pixel
  /\ \E u \in { sample_coord(draw_width, jitter_u, image_width) },
        v \in { sample_coord(draw_height, jitter_v, image_height) } :
       coords' = [u |-> u, v |-> v, r |-> get_ray(cam, u, v, disk),
                  taken |-> TRUE]
  /\ sample' = sample + 1
  /\ UNCHANGED << world, hit_vars, color_vars, draw_height, draw_width >>

\* write_color, and the next pixel of the row
NextPixel ==
  /\ draw_height >= 0
  /\ sample = samples_per_pixel
  /\ draw_width < image_width - 1
  /\ draw_width' = draw_width + 1
  /\ sample' = 0
  /\ UNCHANGED << world, hit_vars, color_vars, draw_height, coords >>

\* write_color for the last pixel of a row, and the row below
NextRow ==
  /\ draw_height >= 0
  /\ sample = samples_per_pixel
  /\ draw_width = image_width - 1
  /\ draw_height' = draw_height - 1
  /\ draw_width' = 0
  /\ sample' = 0
  /\ UNCHANGED << world, hit_vars, color_vars, coords >>

NextMain ==
  \/ \E jitter_u \in random_float, jitter_v \in random_float,
        disk \in random_in_unit_disk :
       TakeSample(jitter_u, jitter_v, disk)
  \/ NextPixel
  \/ NextRow

SpecMain == InitMain /\ [][NextMain]_vars

\* C7: the coordinates (u, v) handed to Camera::get_ray both lie in [0, 1].
C7_UnitCoords ==
  coords.taken =>
    /\ fle(Zero, coords.u) /\ fle(coords.u, One)
    /\ fle(Zero, coords.v) /\ fle(coords.v, One)

====
